---- MODULE Spec2Model ----
(***************************************************************************)
(* DashProxy (src/server.py): the /stream request handler (manifest parse  *)
(* result, track selection, HTTP status) and the streaming session it      *)
(* starts: the segment_fetcher thread (producer) and the generate_stream   *)
(* generator (consumer), coupled by a Queue(maxsize=10) and an Event.      *)
(*                                                                         *)
(* Strings that the code inspects character by character (the track keys   *)
(* and the stream type) are sequences of one-character strings.  URLs are  *)
(* the numbers 1..NumUrls, and the payload of a URL is ContentOf(url).     *)
(* None, the terminal marker of the queue, is the number 0.                *)
(***************************************************************************)
EXTENDS Integers, Sequences, FiniteSets, TLC

\* ------------------------------------------------------------------ bounds
NumUrls == 2
MaxTracks == 2
MaxBandwidth == 1
MaxPuts == 11
MaxFail == 1

\* ------------------------------------------------------- program constants
QueueMax == 10
None == 0

\* ------------------------------------------------------------------ strings
S_video == <<"v", "i", "d", "e", "o">>
S_audio == <<"a", "u", "d", "i", "o">>
S_text == <<"t", "e", "x", "t">>
K_video_a == <<"v", "i", "d", "e", "o", "_", "a">>
K_VIDEO_b == <<"V", "I", "D", "E", "O", "_", "b">>
K_audio_a == <<"a", "u", "d", "i", "o", "_", "a">>

\* str.lower() on one character
LowerChar(c) ==
    CASE c = "V" -> "v" [] c = "I" -> "i" [] c = "D" -> "d"
      [] c = "E" -> "e" [] c = "O" -> "o" [] c = "A" -> "a"
      [] c = "U" -> "u" [] OTHER -> c

\* str.lower()
Lower(s) == [i \in DOMAIN s |-> LowerChar(s[i])]

\* `sub in s` for Python strings: sub occurs in s as a contiguous substring
StrIn(sub, s) ==
    \E off \in 0..(Len(s) - Len(sub)) :
        \A i \in 1..Len(sub) : s[off + i] = sub[i]

\* -------------------------------------------------------------- track maps
Urls == 1..NumUrls
Window(lo, hi) == [i \in 1..(hi - lo + 1) |-> lo + i - 1]
UrlLists == {Window(lo, hi) : lo \in Urls, hi \in Urls} \ {<<>>}
Keys == {K_video_a, K_VIDEO_b, K_audio_a}
ContentOf(url) == url

\* a dict is the sequence of its values in insertion order, keys distinct
DistinctKeys(ts) == \A i, j \in DOMAIN ts : ts[i].key = ts[j].key => i = j
HasKey(ts, k) == \E i \in DOMAIN ts : ts[i].key = k
Lookup(ts, k) == ts[CHOOSE i \in DOMAIN ts : ts[i].key = k]

\* what parse_mpd can record for one representation: a non-empty url list
InitialTrackPool ==
    [key : Keys, bandwidth : 0..MaxBandwidth,
     urls : {Window(1, n) : n \in 1..NumUrls}]

InitialTrackMaps ==
    {ts \in UNION {[1..n -> InitialTrackPool] : n \in 0..MaxTracks} :
        DistinctKeys(ts)}

\* parse_mpd returns (tracks, mpd_type) or (None, None)
ParseFailed == [ok |-> FALSE, tracks |-> <<>>]
InitialParseResults ==
    {ParseFailed} \cup {[ok |-> TRUE, tracks |-> ts] : ts \in InitialTrackMaps}

\* `not tracks` : None or an empty dict
Falsy(r) == ~r.ok \/ r.tracks = <<>>

VARIABLES
    \* stream()
    h_pc, stream_type, initial_tracks, mpd_type, best_track, status,
    \* generate_stream() / segment_fetcher()
    segment_queue, stop_event, session_closed,
    p_pc, idx, sent_segments, live_tracks, all_current_urls, found_new,
    c_pc, disconnected,
    \* history
    enqueued, forwarded, fails, fatal,
    \* parse_mpd(), one representation
    parse_pc, tpl, rep_urls, rep_recorded

parseVars == <<parse_pc, tpl, rep_urls, rep_recorded>>
handlerVars ==
    <<h_pc, stream_type, initial_tracks, mpd_type, best_track, status, parseVars>>
sharedVars == <<segment_queue, stop_event, session_closed>>
fetcherVars == <<p_pc, idx, sent_segments, live_tracks, all_current_urls, found_new>>
streamerVars == <<c_pc, disconnected>>
historyVars == <<enqueued, forwarded, fails, fatal>>
sessionVars == <<sharedVars, fetcherVars, streamerVars, historyVars>>
vars == <<handlerVars, sessionVars>>

NoTrack == [key |-> <<>>, bandwidth |-> 0, urls |-> <<>>]

\* a template with no attribute and no timeline
NoTemplate ==
    [init |-> FALSE, media |-> FALSE, start_number |-> 1, has_timeline |-> FALSE,
     timeline |-> <<>>, media_duration |-> 0, timescale |-> 1,
     seg_duration_units |-> 0]

\* the representation loop of parse_mpd is not running
ParseIdle ==
    /\ parse_pc = "idle" /\ tpl = NoTemplate
    /\ rep_urls = <<>> /\ rep_recorded = FALSE

\* the session's variables before generate_stream has run
SessionIdle ==
    /\ segment_queue = <<>> /\ stop_event = FALSE /\ session_closed = FALSE
    /\ p_pc = "idle" /\ idx = 0 /\ sent_segments = {} /\ live_tracks = ParseFailed
    /\ all_current_urls = <<>> /\ found_new = FALSE
    /\ c_pc = "idle" /\ disconnected = FALSE
    /\ enqueued = <<>> /\ forwarded = <<>> /\ fails = 0 /\ fatal = FALSE

\* ---------------------------------------------------------------- stream()
\* target_tracks: keys containing the stream type, in dict order
TargetTracks(ts, kind) == SelectSeq(ts, LAMBDA t : StrIn(kind, Lower(t.key)))

\* valid_tracks: those with a non-empty url list
ValidTracks(ts) == SelectSeq(ts, LAMBDA t : Len(t.urls) > 0)

\* mutant: max() keeping the last of the greatest elements (>= for >)
MaxByBandwidth_Last(ts) ==
    ts[CHOOSE i \in DOMAIN ts :
        /\ \A j \in DOMAIN ts : ts[j].bandwidth <= ts[i].bandwidth
        /\ \A j \in (i + 1)..Len(ts) : ts[j].bandwidth < ts[i].bandwidth]

\* max(values, key=bandwidth): the first element with the greatest bandwidth
MaxByBandwidth(ts) ==
    ts[CHOOSE i \in DOMAIN ts :
        /\ \A j \in DOMAIN ts : ts[j].bandwidth <= ts[i].bandwidth
        /\ \A j \in 1..(i - 1) : ts[j].bandwidth < ts[i].bandwidth]

\* mutant: an empty track map falls through to the 404 of "no such track"
StatusAfterParse_Empty404(r, kind) ==
    IF ~r.ok THEN 500
    ELSE IF TargetTracks(r.tracks, kind) = <<>> THEN 404
    ELSE IF ValidTracks(TargetTracks(r.tracks, kind)) = <<>> THEN 500
    ELSE 200

\* the status stream() answers once parse_mpd has returned r
StatusAfterParse(r, kind) ==
    IF Falsy(r) THEN 500
    ELSE IF TargetTracks(r.tracks, kind) = <<>> THEN 404
    ELSE IF ValidTracks(TargetTracks(r.tracks, kind)) = <<>> THEN 500
    ELSE 200

SelectInit ==
    /\ h_pc = "start"
    /\ stream_type \in {S_video, S_audio, S_text}
    /\ initial_tracks = ParseFailed
    /\ mpd_type = "none"
    /\ best_track = NoTrack
    /\ status = 0
    /\ SessionIdle
    /\ ParseIdle

\* lines 283-284
CheckStreamType ==
    /\ h_pc = "start"
    /\ IF stream_type \notin {S_video, S_audio}
       THEN h_pc' = "aborted" /\ status' = 404
       ELSE h_pc' = "parse" /\ status' = status
    /\ UNCHANGED <<stream_type, initial_tracks, mpd_type, best_track, sessionVars,
                   parseVars>>

\* line 294
ParseInitial ==
    /\ h_pc = "parse"
    /\ \E r \in InitialParseResults, ty \in {"static", "dynamic"} :
        /\ initial_tracks' = r
        /\ mpd_type' = IF r.ok THEN ty ELSE "none"
    /\ h_pc' = "select"
    /\ UNCHANGED <<stream_type, best_track, status, sessionVars, parseVars>>

\* lines 296-313
SelectTrack ==
    /\ h_pc = "select"
    /\ status' = StatusAfterParse(initial_tracks, stream_type)
    /\ IF status' = 200
       THEN /\ best_track' =
                 MaxByBandwidth(ValidTracks(TargetTracks(initial_tracks.tracks, stream_type)))
            /\ h_pc' = "respond"
       ELSE /\ best_track' = best_track
            /\ h_pc' = "aborted"
    /\ UNCHANGED <<stream_type, initial_tracks, mpd_type, sessionVars, parseVars>>

SelectNext == CheckStreamType \/ ParseInitial \/ SelectTrack

SelectSpec == SelectInit /\ [][SelectNext]_vars

\* ------------------------------------------- parse_mpd, one representation
\* A url is what the pattern was expanded with: the initialization pattern
\* with nothing, the media pattern with a number and, from a timeline, a time.
MaxEntries == 2
SegDurations == {0, 2, 3}
SegStarts == {0, 5}
SegRepeats == {-1, 0, 2}
StartNumbers == {1, 5}
MediaDurations == {0, 1, 20}
Timescales == {0, 1, 49}
SegDurationUnits == {0, 1, 4}

InitUrl == [kind |-> "init", timed |-> FALSE, number |-> 0, time |-> 0]
MediaUrl(number, time) ==
    [kind |-> "media", timed |-> TRUE, number |-> number, time |-> time]
NumberedUrl(number) ==
    [kind |-> "media", timed |-> FALSE, number |-> number, time |-> 0]

\* an <S> element: d and t may be missing, r defaults to 0
TimelineEntries ==
    {e \in [has_d : BOOLEAN, d : SegDurations, has_t : BOOLEAN, t : SegStarts,
            r : SegRepeats] :
        (~e.has_d => e.d = 0) /\ (~e.has_t => e.t = 0)}

Timelines == UNION {[1..n -> TimelineEntries] : n \in 0..MaxEntries}

\* the SegmentTemplate of one representation, with the document's duration
Templates ==
    [init : BOOLEAN, media : {TRUE}, start_number : StartNumbers,
     has_timeline : {TRUE}, timeline : Timelines,
     media_duration : {0}, timescale : {1}, seg_duration_units : {0}]
    \cup
    [init : BOOLEAN, media : {TRUE}, start_number : StartNumbers,
     has_timeline : {FALSE}, timeline : {<<>>},
     media_duration : MediaDurations, timescale : Timescales,
     seg_duration_units : SegDurationUnits]
    \cup
    [init : BOOLEAN, media : {FALSE}, start_number : {1},
     has_timeline : {FALSE}, timeline : {<<>>},
     media_duration : {0}, timescale : {1}, seg_duration_units : {0}]

\* mutant: the time cursor is not advanced inside a run
RepeatS_TimeNotAdvanced(st, d, left) ==
    [urls |-> st.urls \o [i \in 1..left |-> MediaUrl(st.number + i - 1, st.time)],
     time |-> st.time, number |-> st.number + (IF left > 0 THEN left ELSE 0)]

\* lines 108-112: for _ in range(r + 1)
RECURSIVE RepeatS(_, _, _)
RepeatS(st, d, left) ==
    IF left <= 0 THEN st
    ELSE RepeatS([urls |-> Append(st.urls, MediaUrl(st.number, st.time)),
                  time |-> st.time + d,
                  number |-> st.number + 1], d, left - 1)

\* lines 99-107: for s_tag in timeline.findall('mpd:S')
RECURSIVE TimelineLoop(_, _, _)
TimelineLoop(st, entries, k) ==
    IF k > Len(entries) THEN st
    ELSE IF ~entries[k].has_d THEN TimelineLoop(st, entries, k + 1)
    ELSE TimelineLoop(
            RepeatS([st EXCEPT !.time = IF entries[k].has_t THEN entries[k].t ELSE @],
                    entries[k].d, entries[k].r + 1),
            entries, k + 1)

\* lines 97-98, 113
TimelineUrls(entries, start_number) ==
    TimelineLoop([urls |-> <<>>, time |-> 0, number |-> start_number], entries, 1).urls

\* math.ceil of a quotient of positive integers
ExactCeil(a, b) == (a + b - 1) \div b

\* lines 121-122: math.ceil(media_duration / (seg_duration_units / timescale))
\* in binary64.  On the inputs of the model the quotients with timescale 1 are
\* exact, and with timescale 49 the rounded quotient lies above the exact one
\* (1.0 / (1 / 49) is 49.00000000000001), so its ceiling is one more than the
\* exact quotient where that is a whole number.
FloatCeilQuotient(media_duration, seg_duration_units, timescale) ==
    LET exact == ExactCeil(media_duration * timescale, seg_duration_units)
        whole == (media_duration * timescale) % seg_duration_units = 0
    IN IF timescale = 49 /\ whole THEN exact + 1 ELSE exact

\* lines 124-127
DurationUrls(segment_count, start_number) ==
    [i \in 1..segment_count |-> NumberedUrl(start_number + i - 1)]

\* mutant: the initialization url is appended after the media urls
ParseRep_InitLast(t) ==
    LET urls0 == IF t.init THEN <<InitUrl>> ELSE <<>>
    IN IF ~t.media THEN [urls |-> urls0, recorded |-> FALSE]
       ELSE IF t.has_timeline
       THEN [urls |-> TimelineUrls(t.timeline, t.start_number) \o urls0,
             recorded |-> Len(TimelineUrls(t.timeline, t.start_number) \o urls0) # 0]
       ELSE IF t.seg_duration_units > 0 /\ t.timescale > 0 /\ t.media_duration > 0
       THEN [urls |-> DurationUrls(FloatCeilQuotient(t.media_duration,
                          t.seg_duration_units, t.timescale), t.start_number) \o urls0,
             recorded |-> TRUE]
       ELSE [urls |-> urls0, recorded |-> FALSE]

\* lines 77-140: the url list of one representation, and whether the track
\* is recorded
ParseRep(t) ==
    LET urls0 == IF t.init THEN <<InitUrl>> ELSE <<>>
    IN IF ~t.media THEN [urls |-> urls0, recorded |-> FALSE]
       ELSE IF t.has_timeline
       THEN LET urls == urls0 \o TimelineUrls(t.timeline, t.start_number)
            IN [urls |-> urls, recorded |-> Len(urls) # 0]
       ELSE IF t.seg_duration_units > 0 /\ t.timescale > 0 /\ t.media_duration > 0
       THEN LET urls == urls0 \o DurationUrls(
                            FloatCeilQuotient(t.media_duration, t.seg_duration_units,
                                              t.timescale), t.start_number)
            IN [urls |-> urls, recorded |-> Len(urls) # 0]
       ELSE [urls |-> urls0, recorded |-> FALSE]

\* line 62: the loop reaches a representation with an id and a template
ParseInit ==
    /\ h_pc = "parse"
    /\ stream_type = S_video
    /\ initial_tracks = ParseFailed
    /\ mpd_type = "none"
    /\ best_track = NoTrack
    /\ status = 0
    /\ SessionIdle
    /\ parse_pc = "rep"
    /\ tpl \in Templates
    /\ rep_urls = <<>>
    /\ rep_recorded = FALSE

\* lines 76-140
ParseRepresentation ==
    /\ parse_pc = "rep"
    /\ rep_urls' = ParseRep(tpl).urls
    /\ rep_recorded' = ParseRep(tpl).recorded
    /\ parse_pc' = "done"
    /\ UNCHANGED <<h_pc, stream_type, initial_tracks, mpd_type, best_track, status,
                   tpl, sessionVars>>

ParseNext == ParseRepresentation

ParseSpec == ParseInit /\ [][ParseNext]_vars

\* ------------------------------------------------- the streaming session
\* generate_stream() starts with the closure values stream() selected:
\* best_track is a recorded track whose key contains the stream type, and
\* mpd_type is the manifest's type.
SessionTracks ==
    {[key |-> K_video_a, bandwidth |-> MaxBandwidth, urls |-> Window(1, n)] :
        n \in 1..NumUrls}

\* what a live re-parse can return: (None, None), no track at all, another
\* track only, or the session's track with the current window of urls
LiveParseResults ==
    {ParseFailed, [ok |-> TRUE, tracks |-> <<>>],
     [ok |-> TRUE,
      tracks |-> <<[key |-> K_audio_a, bandwidth |-> 0, urls |-> Window(1, 1)]>>]}
    \cup {[ok |-> TRUE,
           tracks |-> <<[key |-> K_video_a, bandwidth |-> MaxBandwidth, urls |-> w]>>] :
            w \in UrlLists}

\* lines 317-322: the queue, the event, the session and the started thread
Init ==
    /\ h_pc = "respond"
    /\ stream_type = S_video
    /\ best_track \in SessionTracks
    /\ initial_tracks = [ok |-> TRUE, tracks |-> <<best_track>>]
    /\ mpd_type \in {"static", "dynamic"}
    /\ status = 200
    /\ segment_queue = <<>> /\ stop_event = FALSE /\ session_closed = FALSE
    /\ p_pc = "start" /\ idx = 0 /\ sent_segments = {} /\ live_tracks = ParseFailed
    /\ all_current_urls = <<>> /\ found_new = FALSE
    /\ c_pc = "get" /\ disconnected = FALSE
    /\ enqueued = <<>> /\ forwarded = <<>> /\ fails = 0 /\ fatal = FALSE
    /\ ParseIdle

\* mutant: a queue without maxsize, put never blocks
QueuePut_NoBlock(item) ==
    /\ segment_queue' = Append(segment_queue, item)
    /\ enqueued' = Append(enqueued, item)

\* Queue.put(item): blocks while the queue holds maxsize items
QueuePut(item) ==
    /\ Len(segment_queue) < QueueMax
    /\ segment_queue' = Append(segment_queue, item)
    /\ enqueued' = Append(enqueued, item)

\* ------------------------------------------------------- segment_fetcher
\* lines 170-171, 189-190
FetcherStart ==
    /\ p_pc = "start"
    /\ p_pc' = IF mpd_type = "static" THEN "vod_while" ELSE "live_while"
    /\ UNCHANGED <<handlerVars, sharedVars, idx, sent_segments, live_tracks,
                   all_current_urls, found_new, streamerVars, historyVars>>

\* line 173: while not stop_event.is_set()
VodWhile ==
    /\ p_pc = "vod_while"
    /\ IF stop_event
       THEN p_pc' = "finally" /\ idx' = idx
       ELSE p_pc' = "vod_for" /\ idx' = 1
    /\ UNCHANGED <<handlerVars, sharedVars, sent_segments, live_tracks,
                   all_current_urls, found_new, streamerVars, historyVars>>

\* mutant: the for loop does not look at the event
VodFor_NoStopCheck ==
    /\ p_pc = "vod_for"
    /\ IF idx > Len(best_track.urls)
       THEN p_pc' = "vod_after"
       ELSE Len(enqueued) < MaxPuts /\ p_pc' = "vod_get"
    /\ UNCHANGED <<handlerVars, sharedVars, idx, sent_segments, live_tracks,
                   all_current_urls, found_new, streamerVars, historyVars>>

\* lines 176-178: next url of the list, or break when the event is set
VodFor ==
    /\ p_pc = "vod_for"
    /\ IF idx > Len(best_track.urls) \/ stop_event
       THEN p_pc' = "vod_after"
       ELSE Len(enqueued) < MaxPuts /\ p_pc' = "vod_get"
    /\ UNCHANGED <<handlerVars, sharedVars, idx, sent_segments, live_tracks,
                   all_current_urls, found_new, streamerVars, historyVars>>

\* lines 180-181: the response arrived
VodGetOk ==
    /\ p_pc = "vod_get"
    /\ p_pc' = "vod_put"
    /\ UNCHANGED <<handlerVars, sharedVars, idx, sent_segments, live_tracks,
                   all_current_urls, found_new, streamerVars, historyVars>>

\* mutant: a failed fetch leaves the loops instead of moving on
VodGetFail_Break ==
    /\ p_pc = "vod_get"
    /\ fails < MaxFail
    /\ fails' = fails + 1
    /\ idx' = idx
    /\ p_pc' = "finally"
    /\ UNCHANGED <<handlerVars, sharedVars, sent_segments, live_tracks,
                   all_current_urls, found_new, streamerVars, enqueued, forwarded, fatal>>

\* lines 184-185: requests.RequestException, logged, next url
VodGetFail ==
    /\ p_pc = "vod_get"
    /\ fails < MaxFail
    /\ fails' = fails + 1
    /\ idx' = idx + 1
    /\ p_pc' = "vod_for"
    /\ UNCHANGED <<handlerVars, sharedVars, sent_segments, live_tracks,
                   all_current_urls, found_new, streamerVars, enqueued, forwarded, fatal>>

\* line 182: q.put(resp.content)
VodPut ==
    /\ p_pc = "vod_put"
    /\ QueuePut(ContentOf(best_track.urls[idx]))
    /\ idx' = idx + 1
    /\ p_pc' = "vod_for"
    /\ UNCHANGED <<handlerVars, stop_event, session_closed, sent_segments, live_tracks,
                   all_current_urls, found_new, streamerVars, forwarded, fails, fatal>>

\* lines 186-187
VodAfter ==
    /\ p_pc = "vod_after"
    /\ p_pc' = IF stop_event THEN "finally" ELSE "vod_while"
    /\ UNCHANGED <<handlerVars, sharedVars, idx, sent_segments, live_tracks,
                   all_current_urls, found_new, streamerVars, historyVars>>

\* line 191: while not stop_event.is_set()
LiveWhile ==
    /\ p_pc = "live_while"
    /\ p_pc' = IF stop_event THEN "finally" ELSE "live_parse"
    /\ UNCHANGED <<handlerVars, sharedVars, idx, sent_segments, live_tracks,
                   all_current_urls, found_new, streamerVars, historyVars>>

\* mutant: a track that disappeared is waited for like a failed parse
AfterLiveParse_GoneRetried(r) ==
    IF Falsy(r) THEN "live_retry_sleep"
    ELSE IF ~HasKey(r.tracks, best_track.key)
            \/ Lookup(r.tracks, best_track.key).urls = <<>> THEN "live_retry_sleep"
    ELSE "live_for"

\* mutant: a failed re-parse ends the session (break for continue)
AfterLiveParse_FailFatal(r) ==
    IF Falsy(r) THEN "finally"
    ELSE IF ~HasKey(r.tracks, best_track.key)
            \/ Lookup(r.tracks, best_track.key).urls = <<>> THEN "finally"
    ELSE "live_for"

\* where the fetcher goes once parse_mpd has returned r (lines 193-201)
AfterLiveParse(r) ==
    IF Falsy(r) THEN "live_retry_sleep"
    ELSE IF ~HasKey(r.tracks, best_track.key)
            \/ Lookup(r.tracks, best_track.key).urls = <<>> THEN "finally"
    ELSE "live_for"

\* lines 192-201
LiveParse ==
    /\ p_pc = "live_parse"
    /\ \E r \in LiveParseResults :
        /\ live_tracks' = r
        /\ p_pc' = AfterLiveParse(r)
        /\ IF p_pc' = "live_for"
           THEN /\ all_current_urls' = Lookup(r.tracks, best_track.key).urls
                /\ found_new' = FALSE
                /\ idx' = 1
           ELSE UNCHANGED <<all_current_urls, found_new, idx>>
    /\ UNCHANGED <<handlerVars, sharedVars, sent_segments, streamerVars, historyVars>>

\* lines 195-196: time.sleep(2); continue
LiveRetrySleep ==
    /\ p_pc = "live_retry_sleep"
    /\ p_pc' = "live_while"
    /\ UNCHANGED <<handlerVars, sharedVars, idx, sent_segments, live_tracks,
                   all_current_urls, found_new, streamerVars, historyVars>>

\* lines 202-206: next url of the list; break when the event is set; a url in
\* sent_segments is passed over
LiveFor ==
    /\ p_pc = "live_for"
    /\ IF idx > Len(all_current_urls) \/ stop_event
       THEN p_pc' = "live_after" /\ UNCHANGED <<idx, found_new>>
       ELSE IF all_current_urls[idx] \in sent_segments
       THEN p_pc' = "live_for" /\ idx' = idx + 1 /\ found_new' = found_new
       ELSE /\ Len(enqueued) < MaxPuts
            /\ p_pc' = "live_get" /\ found_new' = TRUE /\ idx' = idx
    /\ UNCHANGED <<handlerVars, sharedVars, sent_segments, live_tracks,
                   all_current_urls, streamerVars, historyVars>>

\* lines 208-209
LiveGetOk ==
    /\ p_pc = "live_get"
    /\ p_pc' = "live_put"
    /\ UNCHANGED <<handlerVars, sharedVars, idx, sent_segments, live_tracks,
                   all_current_urls, found_new, streamerVars, historyVars>>

\* lines 213-214
LiveGetFail ==
    /\ p_pc = "live_get"
    /\ fails < MaxFail
    /\ fails' = fails + 1
    /\ idx' = idx + 1
    /\ p_pc' = "live_for"
    /\ UNCHANGED <<handlerVars, sharedVars, sent_segments, live_tracks,
                   all_current_urls, found_new, streamerVars, enqueued, forwarded, fatal>>

\* mutant: the url is not recorded in sent_segments
LivePut_NoAdd ==
    /\ p_pc = "live_put"
    /\ QueuePut(ContentOf(all_current_urls[idx]))
    /\ sent_segments' = sent_segments
    /\ idx' = idx + 1
    /\ p_pc' = "live_for"
    /\ UNCHANGED <<handlerVars, stop_event, session_closed, live_tracks,
                   all_current_urls, found_new, streamerVars, forwarded, fails, fatal>>

\* lines 210-211: q.put(resp.content); sent_segments.add(segment_url)
LivePut ==
    /\ p_pc = "live_put"
    /\ QueuePut(ContentOf(all_current_urls[idx]))
    /\ sent_segments' = sent_segments \cup {all_current_urls[idx]}
    /\ idx' = idx + 1
    /\ p_pc' = "live_for"
    /\ UNCHANGED <<handlerVars, stop_event, session_closed, live_tracks,
                   all_current_urls, found_new, streamerVars, forwarded, fails, fatal>>

\* lines 215-217
LiveAfter ==
    /\ p_pc = "live_after"
    /\ p_pc' = IF found_new THEN "live_while" ELSE "live_idle_sleep"
    /\ UNCHANGED <<handlerVars, sharedVars, idx, sent_segments, live_tracks,
                   all_current_urls, found_new, streamerVars, historyVars>>

\* line 217: time.sleep(2.0)
LiveIdleSleep ==
    /\ p_pc = "live_idle_sleep"
    /\ p_pc' = "live_while"
    /\ UNCHANGED <<handlerVars, sharedVars, idx, sent_segments, live_tracks,
                   all_current_urls, found_new, streamerVars, historyVars>>

\* lines 218-221: an exception that is no RequestException leaves the loops
FetcherFatal ==
    /\ p_pc \in {"vod_get", "live_get"}
    /\ fatal' = TRUE
    /\ p_pc' = "finally"
    /\ UNCHANGED <<handlerVars, sharedVars, idx, sent_segments, live_tracks,
                   all_current_urls, found_new, streamerVars, enqueued, forwarded, fails>>

\* mutant: the marker is put on every pass through the handler's end
FetcherFinally_Again ==
    /\ p_pc = "finally"
    /\ QueuePut(None)
    /\ p_pc' = IF Len(enqueued) < MaxPuts THEN "finally" ELSE "done"
    /\ UNCHANGED <<handlerVars, stop_event, session_closed, idx, sent_segments,
                   live_tracks, all_current_urls, found_new, streamerVars,
                   forwarded, fails, fatal>>

\* mutant: the thread ends without the terminal marker (no finally clause)
FetcherFinally_NoMarker ==
    /\ p_pc = "finally"
    /\ p_pc' = "done"
    /\ UNCHANGED <<handlerVars, sharedVars, idx, sent_segments, live_tracks,
                   all_current_urls, found_new, streamerVars, historyVars>>

\* lines 222-224: q.put(None)
FetcherFinally ==
    /\ p_pc = "finally"
    /\ QueuePut(None)
    /\ p_pc' = "done"
    /\ UNCHANGED <<handlerVars, stop_event, session_closed, idx, sent_segments,
                   live_tracks, all_current_urls, found_new, streamerVars,
                   forwarded, fails, fatal>>

Fetcher ==
    \/ FetcherStart \/ VodWhile \/ VodFor \/ VodGetOk \/ VodGetFail \/ VodPut
    \/ VodAfter \/ LiveWhile \/ LiveParse \/ LiveRetrySleep \/ LiveFor
    \/ LiveGetOk \/ LiveGetFail \/ LivePut \/ LiveAfter \/ LiveIdleSleep
    \/ FetcherFatal \/ FetcherFinally

\* ------------------------------------------------------- generate_stream
\* mutant: get returns the first item and leaves it in the queue
StreamerGet_Peek ==
    /\ c_pc = "get"
    /\ segment_queue # <<>>
    /\ Len(forwarded) < MaxPuts
    /\ segment_queue' = segment_queue
    /\ IF Head(segment_queue) = None
       THEN c_pc' = "cleanup" /\ forwarded' = forwarded
       ELSE c_pc' = "yield" /\ forwarded' = Append(forwarded, Head(segment_queue))
    /\ UNCHANGED <<handlerVars, stop_event, session_closed, fetcherVars,
                   disconnected, enqueued, fails, fatal>>

\* mutant: a LifoQueue, get takes the item put last
StreamerGet_Lifo ==
    /\ c_pc = "get"
    /\ segment_queue # <<>>
    /\ segment_queue' = SubSeq(segment_queue, 1, Len(segment_queue) - 1)
    /\ IF segment_queue[Len(segment_queue)] = None
       THEN c_pc' = "cleanup" /\ forwarded' = forwarded
       ELSE c_pc' = "yield"
            /\ forwarded' = Append(forwarded, segment_queue[Len(segment_queue)])
    /\ UNCHANGED <<handlerVars, stop_event, session_closed, fetcherVars,
                   disconnected, enqueued, fails, fatal>>

\* lines 326-329: segment_queue.get() blocks while the queue is empty; None
\* ends the loop, anything else is yielded to the response
StreamerGet ==
    /\ c_pc = "get"
    /\ segment_queue # <<>>
    /\ segment_queue' = Tail(segment_queue)
    /\ IF Head(segment_queue) = None
       THEN c_pc' = "cleanup" /\ forwarded' = forwarded
       ELSE c_pc' = "yield" /\ forwarded' = Append(forwarded, Head(segment_queue))
    /\ UNCHANGED <<handlerVars, stop_event, session_closed, fetcherVars,
                   disconnected, enqueued, fails, fatal>>

\* line 329: the response asks for the next chunk
StreamerResume ==
    /\ c_pc = "yield"
    /\ c_pc' = "get"
    /\ UNCHANGED <<handlerVars, sharedVars, fetcherVars, disconnected, historyVars>>

\* lines 330-331: the client went away, GeneratorExit is raised at the yield
StreamerDisconnect ==
    /\ c_pc = "yield"
    /\ disconnected' = TRUE
    /\ c_pc' = "cleanup"
    /\ UNCHANGED <<handlerVars, sharedVars, fetcherVars, historyVars>>

\* line 334: stop_event.set()
StreamerSetStop ==
    /\ c_pc = "cleanup"
    /\ stop_event' = TRUE
    /\ c_pc' = "close"
    /\ UNCHANGED <<handlerVars, segment_queue, session_closed, fetcherVars,
                   disconnected, historyVars>>

\* line 335: session.close()
StreamerClose ==
    /\ c_pc = "close"
    /\ session_closed' = TRUE
    /\ c_pc' = "join"
    /\ UNCHANGED <<handlerVars, segment_queue, stop_event, fetcherVars,
                   disconnected, historyVars>>

\* mutant: join() without a timeout
StreamerJoin_NoTimeout ==
    /\ c_pc = "join"
    /\ p_pc = "done"
    /\ c_pc' = "done"
    /\ UNCHANGED <<handlerVars, sharedVars, fetcherVars, disconnected, historyVars>>

\* line 336: fetcher_thread.join(timeout=5) returns when the thread has
\* finished, or when the five seconds have passed
StreamerJoin ==
    /\ c_pc = "join"
    /\ c_pc' = "done"
    /\ UNCHANGED <<handlerVars, sharedVars, fetcherVars, disconnected, historyVars>>

Streamer ==
    \/ StreamerGet \/ StreamerResume \/ StreamerDisconnect
    \/ StreamerSetStop \/ StreamerClose \/ StreamerJoin

Next == Fetcher \/ Streamer

Spec == Init /\ [][Next]_vars

\* Both threads keep running while they can: a fetch returns or times out
\* (some outcome of the get happens), and the response either asks for the
\* next chunk or is closed.
FairSpec == Spec /\ WF_vars(Fetcher) /\ WF_vars(Streamer)

\* ------------------------------------------------------------------ claims
InDrainLoop == c_pc \in {"get", "yield"}
FetcherExited == p_pc \in {"finally", "done"}
MarkerDequeued == ~InDrainLoop /\ ~disconnected
Payloads(items) == SelectSeq(items, LAMBDA x : x # None)
LiveParseStep == p_pc = "live_parse" /\ p_pc' # p_pc
TrackGone(r) ==
    \/ ~HasKey(r.tracks, best_track.key)
    \/ Lookup(r.tracks, best_track.key).urls = <<>>

\* C1: once the stop signal is set, the fetcher eventually has put the
\* terminal marker and finished, whatever the queue held at that moment.
C1_StopLeadsToDone == stop_event ~> (p_pc = "done")

\* C2: once the fetcher has left its loops (stop signal, live track gone,
\* internal error), a consumer still in its drain loop eventually leaves it:
\* it dequeues the terminal marker, unless the client disconnects first.
C2_ConsumerEnds == FetcherExited ~> ~InDrainLoop

C2_Witness ==
    /\ fatal /\ ~stop_event /\ p_pc = "done"
    /\ c_pc = "cleanup" /\ MarkerDequeued /\ Len(forwarded) >= 2

\* C3: the queue never holds more than 10 items, and while it holds 10 a
\* fetcher that is at a put stays there and enqueues nothing.
C3_Bounded ==
    [][/\ Len(segment_queue') <= QueueMax
       /\ (Len(segment_queue) = QueueMax /\ p_pc \in {"vod_put", "live_put", "finally"})
            => (p_pc' = p_pc /\ enqueued' = enqueued)]_vars

C3_Witness ==
    /\ Len(segment_queue) = QueueMax /\ p_pc = "vod_put" /\ InDrainLoop

\* C4: what the consumer forwarded, then the marker if it was dequeued, then
\* what the queue still holds, is exactly what the fetcher enqueued, in the
\* same order: nothing lost, duplicated, reordered or forwarded after the marker.
C4_Fifo ==
    /\ enqueued =
         (IF MarkerDequeued THEN Append(forwarded, None) ELSE forwarded) \o segment_queue
    /\ \A i \in DOMAIN forwarded : forwarded[i] = Payloads(enqueued)[i]

C4_Witness ==
    /\ MarkerDequeued /\ c_pc = "done"
    /\ Len(forwarded) >= 2 /\ forwarded[1] # forwarded[2]

\* C5: in live mode no url's payload is enqueued twice, and a url being
\* fetched or put is not in sent_segments.
C5_NoRefetch ==
    mpd_type = "dynamic" =>
        /\ \A i, j \in DOMAIN enqueued :
              (enqueued[i] # None /\ enqueued[i] = enqueued[j]) => i = j
        /\ p_pc \in {"live_get", "live_put"} => all_current_urls[idx] \notin sent_segments
        /\ \A u \in sent_segments : \E i \in DOMAIN enqueued : enqueued[i] = ContentOf(u)

C5_Witness ==
    /\ mpd_type = "dynamic" /\ p_pc = "live_put" /\ idx = 2 /\ fails > 0
    /\ all_current_urls[1] \in sent_segments

\* C6 as stated: every re-parse that succeeds without the session's track
\* key, or with an empty url list for it, sends the fetcher to the terminal put.
C6_Original ==
    [][(LiveParseStep /\ live_tracks'.ok /\ TrackGone(live_tracks'))
          => p_pc' = "finally"]_vars

\* C6 amended: a re-parse that returns at least one track but not the
\* session's key (or the key with no urls) sends the fetcher to the terminal
\* put with nothing enqueued and no error, and the terminal put is all it
\* then does; a re-parse that returns no track at all is waited out and retried.
C6_TrackDisappeared ==
    [][/\ (LiveParseStep /\ live_tracks'.ok) =>
            IF live_tracks'.tracks = <<>>
            THEN p_pc' = "live_retry_sleep" /\ enqueued' = enqueued
            ELSE IF TrackGone(live_tracks')
            THEN p_pc' = "finally" /\ enqueued' = enqueued /\ ~fatal'
            ELSE p_pc' = "live_for"
       /\ (p_pc = "finally" /\ p_pc' # p_pc) =>
            (p_pc' = "done" /\ enqueued' = Append(enqueued, None))]_vars

C6_Witness ==
    /\ mpd_type = "dynamic" /\ p_pc = "done" /\ ~stop_event /\ ~fatal
    /\ live_tracks.ok /\ live_tracks.tracks # <<>> /\ TrackGone(live_tracks)
    /\ sent_segments # {}

\* C7: a failed live re-parse enqueues nothing, leaves sent_segments alone
\* and sends the fetcher to the 2 s wait, from there to the loop test, and
\* from there, the stop signal unset, to the next re-parse.
C7_ReparseRetried ==
    [][/\ (LiveParseStep /\ ~live_tracks'.ok) =>
            /\ p_pc' = "live_retry_sleep"
            /\ enqueued' = enqueued /\ segment_queue' = segment_queue
            /\ sent_segments' = sent_segments /\ fatal' = fatal
       /\ (p_pc = "live_retry_sleep" /\ p_pc' # p_pc) =>
            (p_pc' = "live_while" /\ enqueued' = enqueued)
       /\ (p_pc = "live_while" /\ p_pc' # p_pc /\ ~stop_event) =>
            (p_pc' = "live_parse" /\ enqueued' = enqueued)]_vars

C7_Witness ==
    /\ p_pc = "live_retry_sleep" /\ ~live_tracks.ok /\ ~stop_event
    /\ sent_segments # {} /\ InDrainLoop

\* C8: in on-demand mode a failed fetch enqueues nothing and moves to the
\* next url, the list restarts at its first url after the last, and with
\* the stop signal unset (and no internal error) the fetcher is never at or
\* past the terminal put.
C8_VodSkipsFailures ==
    [][mpd_type = "static" =>
        /\ (p_pc = "vod_get" /\ p_pc' = "vod_for") =>
              (enqueued' = enqueued /\ idx' = idx + 1)
        /\ (p_pc = "vod_for" /\ p_pc' # p_pc /\ ~stop_event) =>
              IF idx > Len(best_track.urls) THEN p_pc' = "vod_after" ELSE p_pc' = "vod_get"
        /\ (p_pc = "vod_after" /\ p_pc' # p_pc /\ ~stop_event) => p_pc' = "vod_while"
        /\ (p_pc = "vod_while" /\ p_pc' # p_pc /\ ~stop_event) =>
              (p_pc' = "vod_for" /\ idx' = 1)
        /\ (~stop_event' /\ ~fatal') =>
              (~FetcherExited' /\ \A i \in DOMAIN enqueued' : enqueued'[i] # None)]_vars

C8_Witness ==
    /\ mpd_type = "static" /\ fails > 0 /\ ~stop_event /\ ~fatal
    /\ Len(enqueued) > Len(best_track.urls) /\ p_pc = "vod_get" /\ idx = 1

\* C9: the selected track matches the stream type (compared in lower case),
\* has urls, has the greatest bandwidth among the matching tracks with urls,
\* and is the first such track in the order of the track map.
C9_BestTrack ==
    h_pc = "respond" =>
        LET ts == initial_tracks.tracks
            Match(j) == StrIn(Lower(stream_type), Lower(ts[j].key)) /\ ts[j].urls # <<>>
        IN \E i \in DOMAIN ts :
              /\ best_track = ts[i] /\ Match(i)
              /\ \A j \in DOMAIN ts : Match(j) => ts[j].bandwidth <= ts[i].bandwidth
              /\ \A j \in 1..(i - 1) : Match(j) => ts[j].bandwidth < ts[i].bandwidth

C9_Witness ==
    /\ h_pc = "respond" /\ Len(initial_tracks.tracks) = 2
    /\ initial_tracks.tracks[1].key = K_VIDEO_b
    /\ initial_tracks.tracks[2].key = K_video_a
    /\ initial_tracks.tracks[1].bandwidth = initial_tracks.tracks[2].bandwidth
    /\ best_track = initial_tracks.tracks[1]

MediaOf(urls) == SelectSeq(urls, LAMBDA u : u.kind = "media")
TimelineParsed == parse_pc = "done" /\ tpl.media /\ tpl.has_timeline
DurationParsed == parse_pc = "done" /\ tpl.media /\ ~tpl.has_timeline

\* the urls an entry stands for: r + 1 with a d, none without
CountOf(e) == IF e.has_d /\ e.r + 1 > 0 THEN e.r + 1 ELSE 0

\* the urls the entries before entry k stand for
RECURSIVE OffsetOf(_, _)
OffsetOf(es, k) == IF k = 1 THEN 0 ELSE OffsetOf(es, k - 1) + CountOf(es[k - 1])

\* the time at which the entries before entry k end
RECURSIVE EndBefore(_, _)
EndBefore(es, k) ==
    IF k = 1 THEN 0
    ELSE IF ~es[k - 1].has_d THEN EndBefore(es, k - 1)
    ELSE (IF es[k - 1].has_t THEN es[k - 1].t ELSE EndBefore(es, k - 1))
            + CountOf(es[k - 1]) * es[k - 1].d

StartOf(es, k) == IF es[k].has_t THEN es[k].t ELSE EndBefore(es, k)

\* C11: an entry with d and r stands for r + 1 consecutive urls; numbers run
\* from startNumber in steps of 1 over all entries; the time of an entry's
\* first url is its t, or the end of the entries before it, and grows by d
\* per url; an entry without d stands for nothing and moves neither cursor.
C11_Timeline ==
    TimelineParsed =>
        LET es == tpl.timeline
            media == MediaOf(rep_urls)
        IN /\ Len(media) = OffsetOf(es, Len(es) + 1)
           /\ \A k \in DOMAIN es : \A i \in 1..CountOf(es[k]) :
                 media[OffsetOf(es, k) + i] =
                    MediaUrl(tpl.start_number + OffsetOf(es, k) + i - 1,
                             StartOf(es, k) + (i - 1) * es[k].d)

\* <S d="2" r="2"/><S d="3"/> with startNumber 1: numbers 1,2,3,4, times 0,2,4,6
C11_Witness ==
    /\ TimelineParsed /\ tpl.start_number = 1 /\ ~tpl.init
    /\ tpl.timeline = <<[has_d |-> TRUE, d |-> 2, has_t |-> FALSE, t |-> 0, r |-> 2],
                        [has_d |-> TRUE, d |-> 3, has_t |-> FALSE, t |-> 0, r |-> 0]>>
    /\ rep_urls = <<MediaUrl(1, 0), MediaUrl(2, 2), MediaUrl(3, 4), MediaUrl(4, 6)>>

\* C12: without a timeline, positive duration, timescale and segment
\* duration give ceil(duration * timescale / segment duration) urls numbered
\* from startNumber without a gap; a non-positive one gives no track.
C12_DurationCount ==
    DurationParsed =>
        IF tpl.media_duration > 0 /\ tpl.timescale > 0 /\ tpl.seg_duration_units > 0
        THEN /\ rep_recorded
             /\ Len(MediaOf(rep_urls)) =
                  ExactCeil(tpl.media_duration * tpl.timescale, tpl.seg_duration_units)
             /\ \A i \in DOMAIN MediaOf(rep_urls) :
                  MediaOf(rep_urls)[i] = NumberedUrl(tpl.start_number + i - 1)
        ELSE ~rep_recorded

\* d is positive and an explicit t is not before the end of the entries
\* that precede it
Forward(es) ==
    \A k \in DOMAIN es :
        es[k].has_d => (es[k].d > 0 /\ (es[k].has_t => es[k].t >= EndBefore(es, k)))

InitFirst ==
    /\ tpl.init => (rep_urls # <<>> /\ rep_urls[1] = InitUrl)
    /\ \A i \in DOMAIN rep_urls : rep_urls[i].kind = "init" => (i = 1 /\ tpl.init)

Increasing(media) == \A i, j \in DOMAIN media : i < j => media[i].time < media[j].time

\* C13 as stated: in a recorded track the initialization url, when declared,
\* comes first and the times of the media urls increase strictly, for
\* every timeline.
C13_Original ==
    (TimelineParsed /\ rep_recorded) => (InitFirst /\ Increasing(MediaOf(rep_urls)))

\* C13 amended: the initialization url, when declared, comes first; the
\* times increase strictly when every d is positive and no explicit t lies
\* before the end of the entries that precede it.
C13_Ordered ==
    (parse_pc = "done" /\ rep_recorded) =>
        /\ InitFirst
        /\ (tpl.has_timeline /\ Forward(tpl.timeline)) => Increasing(MediaOf(rep_urls))

C13_Witness ==
    /\ TimelineParsed /\ rep_recorded /\ tpl.init /\ Forward(tpl.timeline)
    /\ Len(tpl.timeline) = 2 /\ tpl.timeline[2].has_t /\ tpl.timeline[2].t = 5
    /\ tpl.timeline[1].has_d /\ tpl.timeline[1].r = 0
    /\ tpl.timeline[2].has_d /\ tpl.timeline[2].r = 2
    /\ Len(rep_urls) = 5

\* C14: a recorded track holds at least one media url.
C14_HasMedia ==
    (parse_pc = "done" /\ rep_recorded) => MediaOf(rep_urls) # <<>>

\* ------------------------------------------- further claims on the session
\* 2 while a fetch or a re-parse is under way, 1 while its payload waits to
\* be put, 0 otherwise
InFlight(pc) ==
    IF pc \in {"vod_get", "live_get", "live_parse"} THEN 2
    ELSE IF pc \in {"vod_put", "live_put"} THEN 1 ELSE 0

ProducerBlocked ==
    p_pc \in {"vod_put", "live_put", "finally"} /\ Len(segment_queue) = QueueMax
ConsumerBlocked == c_pc = "get" /\ segment_queue = <<>>

\* C15: a consumer that has left its drain loop reaches the end of its
\* cleanup, with the stop signal set and the session closed, whatever the
\* fetcher does.
C15_CleanupCompletes ==
    /\ [](c_pc = "done" => (stop_event /\ session_closed))
    /\ (~InDrainLoop ~> (c_pc = "done"))

C15_Witness ==
    /\ c_pc = "done" /\ disconnected
    /\ p_pc = "finally" /\ Len(segment_queue) = QueueMax

\* C16: with the stop signal set no stop check passes any more: the fetcher
\* only finishes the fetch or re-parse it was in and puts its payload, so at
\* most one network operation and one payload follow the signal.
C16_AtMostOneMore ==
    [][stop_event =>
        /\ InFlight(p_pc') <= InFlight(p_pc)
        /\ (p_pc' # p_pc /\ InFlight(p_pc) = 2) => InFlight(p_pc') < 2
        /\ Payloads(enqueued') # Payloads(enqueued) =>
              /\ InFlight(p_pc) = 1 /\ InFlight(p_pc') = 0
              /\ Len(Payloads(enqueued')) = Len(Payloads(enqueued)) + 1]_vars

C16_Witness ==
    /\ stop_event /\ c_pc = "done" /\ p_pc = "vod_put"
    /\ Len(segment_queue) < QueueMax

\* C17: at the end of a live pass that ran through its list every url of
\* the list is in sent_segments, and the 2 s wait after a pass is taken
\* exactly when the pass found no new url.
C17_PassRecordsAll ==
    mpd_type = "dynamic" =>
        /\ (p_pc = "live_after" /\ idx > Len(all_current_urls)) =>
              \A i \in DOMAIN all_current_urls : all_current_urls[i] \in sent_segments
        /\ p_pc = "live_idle_sleep" => ~found_new

\* C18: in live mode the payloads are enqueued in the order of the
\* manifest's url list (the lists of the model are ascending).
C18_PlaybackOrder ==
    mpd_type = "dynamic" =>
        \A i, j \in DOMAIN Payloads(enqueued) :
            i < j => Payloads(enqueued)[i] < Payloads(enqueued)[j]

\* C19: the terminal marker is put at most once and nothing is put after
\* it; the fetcher has finished exactly when the marker has been put.
C19_MarkerLast ==
    /\ \A i \in DOMAIN enqueued : enqueued[i] = None => i = Len(enqueued)
    /\ (p_pc = "done") <=> (enqueued # <<>> /\ enqueued[Len(enqueued)] = None)

C19_Witness ==
    /\ p_pc = "done" /\ Len(enqueued) >= 3 /\ enqueued[Len(enqueued)] = None
    /\ InDrainLoop

\* C20: while the consumer drains, the fetcher waiting on a full queue and
\* the consumer waiting on an empty one never coincide, and a get of the
\* consumer leaves the queue below its capacity, so the waiting put can go on.
C20_NoMutualBlock ==
    [][/\ InDrainLoop => ~(ProducerBlocked /\ ConsumerBlocked)
       /\ (ProducerBlocked /\ c_pc = "get" /\ c_pc' # c_pc) =>
             (Len(segment_queue') < QueueMax /\ p_pc' = p_pc)]_vars

C20_Witness ==
    /\ ProducerBlocked /\ p_pc = "finally" /\ c_pc = "get" /\ ~stop_event

====
